---- MODULE Spec2Model ----
(***************************************************************************)
(* Model of rabeezarre/music-verification: the Mozart style checker in its *)
(* two programs, music_checker.py (direct evaluation) and                  *)
(* music_checker_smt.py (evaluation through Z3).                           *)
(*                                                                         *)
(* Encodings.                                                              *)
(*  - A pitch is its MIDI number.                                          *)
(*  - A duration (music21 quarterLength) is counted in eighths of a        *)
(*    quarter note: 1.0 is 8, 0.25 is 2, 0.125 is 1, 2.0 is 16.            *)
(*  - A voice pair is the tuple <<note1, note2, duration>> of the source.  *)
(*  - A diagnostic string is the tuple of its parts:                       *)
(*      "Unusual leap (25 semitones) at position 0"                        *)
(*          is <<"Unusual leap", 25, "position", 0>>                       *)
(*      "Highly unusual dissonance in measure 2"                           *)
(*          is <<"Highly unusual dissonance", "measure", 2>>               *)
(*      "Analysis error: m"  is <<"Analysis error", m>>                    *)
(*  - A Z3 Solver is the set of the assertions added to it.                *)
(***************************************************************************)
EXTENDS Integers, Sequences, FiniteSets, TLC

VARIABLES
    voice_pairs,    \* argument of check_voice_leading: list of voice pairs
    chords,         \* the vertical sonorities check_harmony collects
    tonic_pc,       \* key.tonic.midi % 12 of the score
    solver,         \* self.solver of the MozartChecker of music_checker.py
    vl_direct,      \* what check_voice_leading of music_checker.py returned
    h_direct,       \* what check_harmony of music_checker.py returned
    vl_smt,         \* what check_voice_leading of music_checker_smt.py returned
    h_smt,          \* what check_harmony of music_checker_smt.py returned
    ran,            \* the evaluators that have returned
    notes_built,    \* the notes list extract_voice_pairs built for each part
    program,        \* which of the two programs runs analyze_mozart_works
    pc,             \* position in analyze_mozart_works
    xml_files,      \* number of files found; file k is the k-th of the list
    next_file,      \* number of loop iterations of analyze_mozart_works done
    results,        \* the results dict of analyze_mozart_works
    score,          \* the score last handed to verify_piece
    fault,          \* the exception raised inside that call, if any
    verdict,        \* what that call returned
    calls           \* number of verify_piece calls on the checker so far

evalVars == <<voice_pairs, chords, tonic_pc, vl_direct, h_direct, vl_smt,
              h_smt, ran, notes_built>>

batchVars == <<program, pc, xml_files, next_file, results, score, fault,
               verdict, calls>>

vars == <<evalVars, solver, batchVars>>

(***************************************************************************)
(* Bounds of the model and constants of the program.                       *)
(***************************************************************************)
MaxPitch == 127

LongDuration == 8

FastDuration == 2

MaxLeapLong == 19

MaxLeapShort == 24

Octave == 12

Pitches == 0..MaxPitch

Durations == {1, 2, 4, 8, 16}

common_arpeggio_intervals == {12, 19, 24, 28, 31}

dramatic_intervals == {29, 31, 36, 41}

Abs(x) == IF x < 0 THEN -x ELSE x

EmptySolver == {}

(***************************************************************************)
(* Scores, as music21 hands them to the checker. A score is its parts in   *)
(* order and the tonic pitch class score.analyze('key') finds; a part is   *)
(* its note and chord events in order, each lying directly in a measure of *)
(* the part, so that the walk over the measures of check_harmony meets the *)
(* chords in the order of the parts.                                       *)
(***************************************************************************)
Note(p, d) == [kind |-> "Note", pitches |-> <<p>>, quarterLength |-> d]

Chord(ps, d) == [kind |-> "Chord", pitches |-> ps, quarterLength |-> d]

NoScore == [parts |-> <<>>, tonic |-> 0]

NoFault == [stage |-> "none", message |-> ""]

NoVerdict == [valid |-> TRUE, violations |-> <<>>]

\* results as lines 168-174 build it (the timestamp left out).
NewResults ==
    [total_files |-> 0, valid_files |-> 0, files_with_violations |-> 0,
     analyses |-> <<>>]

\* The batch variables in the specifications that run the evaluators alone.
BatchIdle ==
    /\ program = "music_checker.py"
    /\ pc = "idle"
    /\ xml_files = 0
    /\ next_file = 0
    /\ results = NewResults
    /\ score = NoScore
    /\ fault = NoFault
    /\ verdict = NoVerdict
    /\ calls = 0

(***************************************************************************)
(* music_checker.py: the direct evaluator of voice leading.                *)
(***************************************************************************)
\* Variant: the arpeggiation set of the SMT program in the direct evaluator.
is_arpeggiation_pattern_narrow(note1, note2) ==
    Abs(note2 - note1) \in {12, 19, 24}

is_arpeggiation_pattern(note1, note2) ==
    Abs(note2 - note1) \in common_arpeggio_intervals

is_dramatic_gesture(interval) == interval \in dramatic_intervals

max_leap_of(duration) ==
    IF duration >= LongDuration THEN MaxLeapLong ELSE MaxLeapShort

UnusualLeap(interval, i) == <<"Unusual leap", interval, "position", i>>

\* One iteration of the loop of check_voice_leading: TRUE when the pair
\* reaches the append of line 68, FALSE when it leaves by a continue or
\* never enters the if of line 57.
leap_is_flagged(note1, note2, duration) ==
    LET interval == Abs(note2 - note1)
    IN  IF interval > max_leap_of(duration)
        THEN IF is_arpeggiation_pattern(note1, note2) THEN FALSE
             ELSE IF is_dramatic_gesture(interval) THEN FALSE
             ELSE IF duration < FastDuration THEN FALSE
             ELSE TRUE
        ELSE FALSE

\* The two assertions lines 43-44 add to self.solver for pair i.
note_assertions(i, note1, note2) ==
    { <<"note", i, 1, note1>>, <<"note", i, 2, note2>> }

RECURSIVE direct_vl_loop(_, _, _, _)
direct_vl_loop(s, pairs, i, violations) ==
    IF i >= Len(pairs)
    THEN [violations |-> violations, solver |-> s]
    ELSE LET note1 == pairs[i + 1][1]
             note2 == pairs[i + 1][2]
             duration == pairs[i + 1][3]
             s2 == s \cup note_assertions(i, note1, note2)
         IN  direct_vl_loop(s2, pairs, i + 1,
                 IF leap_is_flagged(note1, note2, duration)
                 THEN Append(violations, UnusualLeap(Abs(note2 - note1), i))
                 ELSE violations)

\* No two assertions pin one variable to two values.
solver_consistent(s) ==
    \A a \in s : \A b \in s : (a[2] = b[2] /\ a[3] = b[3]) => a[4] = b[4]

\* Variant: the evaluator queries self.solver and reports when it is unsat.
check_voice_leading_consulting(s, pairs) ==
    LET r == direct_vl_loop(s, pairs, 0, <<>>)
    IN  IF solver_consistent(r.solver)
        THEN r
        ELSE [violations |-> Append(r.violations, UnusualLeap(0, Len(pairs))),
              solver |-> r.solver]

\* check_voice_leading of music_checker.py on a checker whose solver holds s:
\* the list it returns and the solver it leaves behind.
check_voice_leading(s, pairs) == direct_vl_loop(s, pairs, 0, <<>>)

(***************************************************************************)
(* SpecVoice: check_voice_leading of music_checker.py on every single      *)
(* voice pair.                                                             *)
(***************************************************************************)
VoiceFacts == Pitches \X Pitches \X Durations

InitVoice ==
    /\ voice_pairs \in { <<f>> : f \in VoiceFacts }
    /\ chords = <<>>
    /\ tonic_pc = 0
    /\ solver = EmptySolver
    /\ vl_direct = <<>>
    /\ h_direct = <<>>
    /\ vl_smt = <<>>
    /\ h_smt = <<>>
    /\ ran = {}
    /\ notes_built = <<>>
    /\ BatchIdle

DirectCheckVoiceLeading ==
    /\ "direct_vl" \notin ran
    /\ LET r == check_voice_leading(solver, voice_pairs)
       IN  /\ vl_direct' = r.violations
           /\ solver' = r.solver
    /\ ran' = ran \cup {"direct_vl"}
    /\ UNCHANGED <<voice_pairs, chords, tonic_pc, h_direct, vl_smt, h_smt,
                   notes_built, batchVars>>

NextVoice == DirectCheckVoiceLeading

SpecVoice == InitVoice /\ [][NextVoice]_vars

(***************************************************************************)
(* music_checker.py: the direct evaluator of harmony.                      *)
(***************************************************************************)
PitchClasses == 0..(Octave - 1)

Dissonance(i) == <<"Highly unusual dissonance", "measure", i>>

\* allowed_pcs of lines 114-127: built for every chord, read by nothing.
allowed_pcs(tonic) == { (tonic + k) % Octave : k \in 0..11 }

\* Variant: the intervals taken in both directions.
pairwise_intervals_both_ways(chord_pcs) ==
    { (p[2] - p[1]) % Octave : p \in { q \in chord_pcs \X chord_pcs : q[2] # q[1] } }

\* intervals of line 131.
pairwise_intervals(chord_pcs) ==
    { (p[2] - p[1]) % Octave : p \in { q \in chord_pcs \X chord_pcs : q[2] > q[1] } }

\* Lines 130-134: the chord reaches the append.
chord_is_flagged(chord_pcs, tonic) ==
    LET allowed == allowed_pcs(tonic)
    IN  IF Cardinality(chord_pcs) >= 3
        THEN LET intervals == pairwise_intervals(chord_pcs)
             IN  1 \in intervals /\ 6 \in intervals /\ 10 \in intervals
        ELSE FALSE

RECURSIVE direct_harmony_loop(_, _, _, _)
direct_harmony_loop(cs, tonic, i, violations) ==
    IF i >= Len(cs)
    THEN violations
    ELSE direct_harmony_loop(cs, tonic, i + 1,
             IF chord_is_flagged(cs[i + 1], tonic)
             THEN Append(violations, Dissonance(i))
             ELSE violations)

\* The loop of check_harmony of music_checker.py (lines 110-136) over the
\* collected chords.
check_harmony_chords(cs, tonic) == direct_harmony_loop(cs, tonic, 0, <<>>)

(***************************************************************************)
(* SpecHarmony: check_harmony of music_checker.py on every single          *)
(* non-empty set of pitch classes, under every tonic.                      *)
(***************************************************************************)
InitHarmony ==
    /\ voice_pairs = <<>>
    /\ chords \in { <<c>> : c \in (SUBSET PitchClasses) \ {{}} }
    /\ tonic_pc \in PitchClasses
    /\ solver = EmptySolver
    /\ vl_direct = <<>>
    /\ h_direct = <<>>
    /\ vl_smt = <<>>
    /\ h_smt = <<>>
    /\ ran = {}
    /\ notes_built = <<>>
    /\ BatchIdle

DirectCheckHarmony ==
    /\ "direct_h" \notin ran
    /\ h_direct' = check_harmony_chords(chords, tonic_pc)
    /\ ran' = ran \cup {"direct_h"}
    /\ UNCHANGED <<voice_pairs, chords, tonic_pc, solver, vl_direct, vl_smt,
                   h_smt, notes_built, batchVars>>

NextHarmony == DirectCheckHarmony

SpecHarmony == InitHarmony /\ [][NextHarmony]_vars

(***************************************************************************)
(* music_checker_smt.py: the evaluators that go through Z3.                *)
(*                                                                         *)
(* Every Z3 variable carries the index of its fact in its name, so the     *)
(* assertions of two facts share no variable and a solver has a model iff  *)
(* the assertions of each fact have one. A model is searched in Pitches    *)
(* for the note and interval variables (each is pinned by an equality to a *)
(* value in that range) and in BOOLEAN for the Bool.                       *)
(***************************************************************************)
is_arpeggiation_context(note1, note2) == Abs(note2 - note1) \in {12, 19, 24}

is_dramatic_gesture_formula(interval_var) ==
    \/ interval_var = 29
    \/ interval_var = 31
    \/ interval_var = 36
    \/ interval_var = 41

\* acceptable_intervals of lines 60-71, under the value interval_var takes.
acceptable_intervals(interval_var, note1, note2, duration) ==
    IF duration >= LongDuration
    THEN \/ interval_var <= 12
         \/ interval_var = 19
         \/ (interval_var = 24 /\ is_arpeggiation_context(note1, note2))
    ELSE \/ interval_var <= 24
         \/ interval_var = 31
         \/ is_dramatic_gesture_formula(interval_var)

\* Satisfiability of the assertions about one pair. In the joint solver s
\* (lines 49-54, 73) the Bool is asserted equal to acceptable_intervals
\* (aliased) and not negated; in a test_solver (lines 95-99) the Bool is
\* negated and nothing defines it.
pair_assertions_sat(fact, aliased, negated) ==
    \E n1 \in Pitches :
        /\ n1 = fact[1]
        /\ \E n2 \in Pitches :
            /\ n2 = fact[2]
            /\ \E interval_var \in Pitches :
                /\ interval_var = Abs(n2 - n1)
                /\ \E leap_constraint \in BOOLEAN :
                    /\ aliased => (leap_constraint =
                          acceptable_intervals(interval_var, fact[1], fact[2], fact[3]))
                    /\ negated => ~leap_constraint

\* s.check() of line 83.
voice_check_result(pairs) ==
    IF \A i \in 1..Len(pairs) : pair_assertions_sat(pairs[i], TRUE, FALSE)
    THEN "sat" ELSE "unsat"

\* The loop of lines 89-103, entered only when the joint query is unsat.
RECURSIVE smt_vl_isolate(_, _, _)
smt_vl_isolate(pairs, i, violations) ==
    IF i >= Len(pairs)
    THEN violations
    ELSE smt_vl_isolate(pairs, i + 1,
             IF pair_assertions_sat(pairs[i + 1], FALSE, TRUE)
             THEN Append(violations,
                         UnusualLeap(Abs(pairs[i + 1][2] - pairs[i + 1][1]), i))
             ELSE violations)

\* check_voice_leading of music_checker_smt.py.
smt_check_voice_leading(pairs) ==
    IF voice_check_result(pairs) = "unsat"
    THEN smt_vl_isolate(pairs, 0, <<>>)
    ELSE <<>>

\* Z3 terms, as far as Python compares them.
IntVar(name) == <<"Int", name>>

IntVal(k) == <<"IntVal", <<k>>>>

\* bool(lhs == rhs) of a Z3 equality (ExprRef.__bool__): TRUE iff the two
\* sides are the same term.
z3_eq_truth(lhs, rhs) == lhs = rhs

\* harsh_dissonance of lines 156-165: a Python bool, set when the Python
\* truth values of interval_var == 1, == 6 and == 10 all hold for one pair.
smt_harsh_dissonance(chord_pcs, i) ==
    \E a_idx \in 0..(Cardinality(chord_pcs) - 1) :
        \E b_idx \in 0..(Cardinality(chord_pcs) - 1) :
            /\ a_idx < b_idx
            /\ LET interval_var == IntVar(<<"interval", i, a_idx, b_idx>>)
               IN  /\ z3_eq_truth(interval_var, IntVal(1))
                   /\ z3_eq_truth(interval_var, IntVal(6))
                   /\ z3_eq_truth(interval_var, IntVal(10))

\* Satisfiability of what lines 152, 161 and 167 assert about chord i.
chord_assertions_sat(chord_pcs, i) ==
    /\ \A p \in chord_pcs : \E pc_var \in PitchClasses : pc_var = p
    /\ \A a \in chord_pcs : \A b \in chord_pcs :
           \E interval_var \in PitchClasses : interval_var = (b - a) % Octave
    /\ \E harmony_constraint \in BOOLEAN :
           harmony_constraint = ~smt_harsh_dissonance(chord_pcs, i)

\* test_solver of lines 185-187: Not(constraint) alone, the Bool undefined.
chord_negation_sat == \E harmony_constraint \in BOOLEAN : ~harmony_constraint

\* s.check() of line 179; chords of fewer than 3 pitch classes are skipped.
harmony_check_result(cs) ==
    IF \A i \in 1..Len(cs) :
           Cardinality(cs[i]) >= 3 => chord_assertions_sat(cs[i], i - 1)
    THEN "sat" ELSE "unsat"

RECURSIVE smt_harmony_isolate(_, _, _)
smt_harmony_isolate(cs, i, violations) ==
    IF i >= Len(cs)
    THEN violations
    ELSE smt_harmony_isolate(cs, i + 1,
             IF Cardinality(cs[i + 1]) >= 3 /\ chord_negation_sat
             THEN Append(violations, Dissonance(i))
             ELSE violations)

\* The part of check_harmony of music_checker_smt.py after the chords are
\* collected (lines 138-190).
smt_check_harmony_chords(cs, tonic) ==
    IF harmony_check_result(cs) = "unsat"
    THEN smt_harmony_isolate(cs, 0, <<>>)
    ELSE <<>>

(***************************************************************************)
(* SpecEval: the four evaluators on the same lists of facts.               *)
(***************************************************************************)
MaxFacts == 2

MaxChords == 2

SeqsUpTo(S, n) == UNION { [1..k -> S] : k \in 0..n }

EvalFacts == { <<60, 64, 16>>, <<60, 85, 16>>, <<60, 75, 8>>, <<60, 85, 1>>,
               <<72, 44, 4>> }

EvalChords == { {0, 4, 7}, {0, 1, 6, 10}, {0, 6} }

InitEval ==
    /\ voice_pairs \in SeqsUpTo(EvalFacts, MaxFacts)
    /\ chords \in SeqsUpTo(EvalChords, MaxChords)
    /\ tonic_pc \in {0, 7}
    /\ solver = EmptySolver
    /\ vl_direct = <<>>
    /\ h_direct = <<>>
    /\ vl_smt = <<>>
    /\ h_smt = <<>>
    /\ ran = {}
    /\ notes_built = <<>>
    /\ BatchIdle

SmtCheckVoiceLeading ==
    /\ "smt_vl" \notin ran
    /\ vl_smt' = smt_check_voice_leading(voice_pairs)
    /\ ran' = ran \cup {"smt_vl"}
    /\ UNCHANGED <<voice_pairs, chords, tonic_pc, solver, vl_direct, h_direct,
                   h_smt, notes_built, batchVars>>

SmtCheckHarmony ==
    /\ "smt_h" \notin ran
    /\ h_smt' = smt_check_harmony_chords(chords, tonic_pc)
    /\ ran' = ran \cup {"smt_h"}
    /\ UNCHANGED <<voice_pairs, chords, tonic_pc, solver, vl_direct, h_direct,
                   vl_smt, notes_built, batchVars>>

NextEval ==
    \/ DirectCheckVoiceLeading
    \/ SmtCheckVoiceLeading
    \/ DirectCheckHarmony
    \/ SmtCheckHarmony

SpecEval == InitEval /\ [][NextEval]_vars

(***************************************************************************)
(* The fact extractor (the same text in both programs).                    *)
(***************************************************************************)
SeqMin(ps) == CHOOSE x \in { ps[k] : k \in 1..Len(ps) } :
                  \A k \in 1..Len(ps) : x <= ps[k]

SeqMax(ps) == CHOOSE x \in { ps[k] : k \in 1..Len(ps) } :
                  \A k \in 1..Len(ps) : x >= ps[k]

\* What one event adds to notes (lines 18-28): a Note its pitch, a Chord of
\* more than one pitch its lowest and its highest pitch, any other Chord
\* nothing.
event_entries(ev) ==
    IF ev.kind = "Note"
    THEN << <<ev.pitches[1], ev.quarterLength>> >>
    ELSE IF Len(ev.pitches) > 1
         THEN << <<SeqMin(ev.pitches), ev.quarterLength>>,
                 <<SeqMax(ev.pitches), ev.quarterLength>> >>
         ELSE <<>>

RECURSIVE part_notes(_)
part_notes(part) ==
    IF part = <<>> THEN <<>>
    ELSE event_entries(Head(part)) \o part_notes(Tail(part))

\* Lines 31-32: one pair per adjacent couple of entries of a part.
part_pairs(notes) ==
    [i \in 1..(Len(notes) - 1) |->
        <<notes[i][1], notes[i + 1][1], notes[i][2]>>]

RECURSIVE all_notes(_)
all_notes(parts) ==
    IF parts = <<>> THEN <<>>
    ELSE part_notes(Head(parts)) \o all_notes(Tail(parts))

\* Variant: notes is not emptied between parts.
parts_pairs_unreset(parts) == part_pairs(all_notes(parts))

RECURSIVE parts_pairs(_)
parts_pairs(parts) ==
    IF parts = <<>> THEN <<>>
    ELSE part_pairs(part_notes(Head(parts))) \o parts_pairs(Tail(parts))

extract_voice_pairs(sc) == parts_pairs(sc.parts)

\* Lines 103-108 of check_harmony: the pitch-class set of every chord event,
\* the empty ones skipped.
RECURSIVE part_chords(_)
part_chords(part) ==
    IF part = <<>> THEN <<>>
    ELSE LET ev == Head(part)
             pcs == { ev.pitches[k] % Octave : k \in 1..Len(ev.pitches) }
         IN  (IF ev.kind = "Chord" /\ pcs # {} THEN <<pcs>> ELSE <<>>)
                 \o part_chords(Tail(part))

RECURSIVE parts_chords(_)
parts_chords(parts) ==
    IF parts = <<>> THEN <<>>
    ELSE part_chords(Head(parts)) \o parts_chords(Tail(parts))

\* check_harmony of music_checker.py.
check_harmony(sc) == check_harmony_chords(parts_chords(sc.parts), sc.tonic)

\* check_harmony of music_checker_smt.py.
smt_check_harmony(sc) ==
    smt_check_harmony_chords(parts_chords(sc.parts), sc.tonic)

(***************************************************************************)
(* SpecExtract: extract_voice_pairs on every small score.                  *)
(***************************************************************************)
MaxParts == 2

MaxEvents == 2

ExtractEvents ==
    { Note(60, 8), Note(72, 1), Chord(<<67, 60, 64>>, 16), Chord(<<62>>, 4) }

ExtractScores ==
    [parts : SeqsUpTo(SeqsUpTo(ExtractEvents, MaxEvents), MaxParts),
     tonic : {0}]

InitExtract ==
    /\ voice_pairs = <<>>
    /\ chords = <<>>
    /\ tonic_pc = 0
    /\ solver = EmptySolver
    /\ vl_direct = <<>>
    /\ h_direct = <<>>
    /\ vl_smt = <<>>
    /\ h_smt = <<>>
    /\ ran = {}
    /\ notes_built = <<>>
    /\ program \in {"music_checker.py", "music_checker_smt.py"}
    /\ pc = "idle"
    /\ xml_files = 0
    /\ next_file = 0
    /\ results = NewResults
    /\ score \in ExtractScores
    /\ fault = NoFault
    /\ verdict = NoVerdict
    /\ calls = 0

\* extract_voice_pairs(score), lines 12-34 of either program: the list it
\* returns and, part by part, the notes list of lines 16-28.
ExtractVoicePairs ==
    /\ "extract" \notin ran
    /\ voice_pairs' = extract_voice_pairs(score)
    /\ notes_built' = [p \in 1..Len(score.parts) |-> part_notes(score.parts[p])]
    /\ ran' = ran \cup {"extract"}
    /\ UNCHANGED <<chords, tonic_pc, vl_direct, h_direct, vl_smt, h_smt,
                   solver, batchVars>>

NextExtract == ExtractVoicePairs

SpecExtract == InitExtract /\ [][NextExtract]_vars

(***************************************************************************)
(* verify_piece. An exception inside the try is the input flt: raised by   *)
(* extract_voice_pairs (stage "extract") or by check_harmony, whose first  *)
(* statement is score.analyze('key') (stage "harmony").                    *)
(***************************************************************************)
violation_threshold == 3

AnalysisError(message) == <<"Analysis error", message>>

\* The filter of lines 154-156.
is_significant(v) ==
    \/ (v[1] = "Unusual leap" /\ v[3] = "position")
    \/ v[1] = "Highly unusual dissonance"

\* Variant: the threshold itself counted as too many.
within_threshold_strict(n) == n < violation_threshold

\* len(...) <= violation_threshold of line 161 (210 in the SMT program).
within_threshold(n) == n <= violation_threshold

\* Variant: the error appended to what had been collected.
except_return_keeping(violations, message) ==
    [valid |-> FALSE, violations |-> Append(violations, AnalysisError(message))]

\* The except clause of line 164 (213): violations is what the try had
\* collected when the exception was raised.
except_return(violations, message) ==
    [valid |-> FALSE, violations |-> <<AnalysisError(message)>>]

\* verify_piece of music_checker.py on a checker whose solver holds s: the
\* tuple it returns and the solver it leaves behind.
verify_piece(s, sc, flt) ==
    IF flt.stage = "extract"
    THEN [ret |-> except_return(<<>>, flt.message), solver |-> s]
    ELSE LET pairs == extract_voice_pairs(sc)
             r == check_voice_leading(s, pairs)
         IN  IF flt.stage = "harmony"
             THEN [ret |-> except_return(r.violations, flt.message),
                   solver |-> r.solver]
             ELSE LET violations == r.violations \o check_harmony(sc)
                      significant_violations ==
                          SelectSeq(violations, is_significant)
                  IN  [ret |-> [valid |-> within_threshold(
                                              Len(significant_violations)),
                                violations |-> significant_violations],
                       solver |-> r.solver]

\* verify_piece of music_checker_smt.py.
smt_verify_piece(sc, flt) ==
    IF flt.stage = "extract"
    THEN except_return(<<>>, flt.message)
    ELSE LET pairs == extract_voice_pairs(sc)
             voice_leading_violations == smt_check_voice_leading(pairs)
         IN  IF flt.stage = "harmony"
             THEN except_return(voice_leading_violations, flt.message)
             ELSE LET violations ==
                          voice_leading_violations \o smt_check_harmony(sc)
                  IN  [valid |-> within_threshold(Len(violations)),
                       violations |-> violations]

(***************************************************************************)
(* Spec: analyze_mozart_works of either program over the files of a        *)
(* folder. One checker serves the whole loop.                              *)
(***************************************************************************)
MaxFiles == 2

Messages == {"bad file", "no key"}

\* str(e) of the UnicodeEncodeError a print raises when stdout cannot encode
\* what it is given (the symbols of lines 217 and 221, a file name).
PrintMessages == {"codec can't encode"}

Faults == {NoFault} \cup
          [stage : {"extract", "harmony"}, message : {"no key"}]

Leap1 == <<Note(60, 16), Note(85, 16)>>

Harsh == Chord(<<60, 61, 66, 70>>, 8)

ScorePool ==
    { [parts |-> <<>>, tonic |-> 0],
      [parts |-> << <<Note(60, 16), Note(85, 16), Note(60, 16), Note(85, 16)>> >>,
       tonic |-> 0],
      [parts |-> << <<Note(85, 8), Note(60, 8), Note(85, 8), Note(60, 8),
                      Note(85, 8)>> >>,
       tonic |-> 5],
      [parts |-> << <<Note(85, 16), Harsh, Note(85, 4), Harsh>> >>, tonic |-> 7],
      [parts |-> << <<Note(60, 8), Note(64, 8)>>, Leap1 >>, tonic |-> 0],
      [parts |-> << <<Chord(<<62>>, 8), Harsh, Chord(<<>>, 8), Note(62, 1)>> >>,
       tonic |-> 2] }

Init ==
    /\ voice_pairs = <<>>
    /\ chords = <<>>
    /\ tonic_pc = 0
    /\ vl_direct = <<>>
    /\ h_direct = <<>>
    /\ vl_smt = <<>>
    /\ h_smt = <<>>
    /\ ran = {}
    /\ notes_built = <<>>
    /\ solver = EmptySolver
    /\ program \in {"music_checker.py", "music_checker_smt.py"}
    /\ pc = "start"
    /\ xml_files = 0
    /\ next_file = 0
    /\ results = NewResults
    /\ score = NoScore
    /\ fault = NoFault
    /\ verdict = NoVerdict
    /\ calls = 0

\* Lines 176-184: the banner is printed, the files of the folder are listed
\* and counted, the count is printed.
DiscoverFiles ==
    /\ pc = "start"
    /\ \E n \in 0..MaxFiles :
        /\ xml_files' = n
        /\ results' = [results EXCEPT !.total_files = n]
    /\ pc' = "loop"
    /\ UNCHANGED <<evalVars, solver, program, next_file, score, fault,
                   verdict, calls>>

\* Lines 176-181: a print of the banner or the listing of the folder raises;
\* the exception leaves analyze_mozart_works with nothing listed or counted.
DiscoverFilesAbortsEarly ==
    /\ pc = "start"
    /\ pc' = "aborted"
    /\ UNCHANGED <<evalVars, solver, program, xml_files, next_file, results,
                   score, fault, verdict, calls>>

\* Lines 179-184: the files are listed and counted, and the print of the
\* count and the folder (line 184) raises; the exception leaves
\* analyze_mozart_works before the loop.
DiscoverFilesAborts ==
    /\ pc = "start"
    /\ \E n \in 0..MaxFiles :
        /\ xml_files' = n
        /\ results' = [results EXCEPT !.total_files = n]
    /\ pc' = "aborted"
    /\ UNCHANGED <<evalVars, solver, program, next_file, score, fault,
                   verdict, calls>>

\* Lines 197-211: the analysis record is counted and appended.
record_analysis(res, filename, ret) ==
    LET analysis == [filename |-> filename, valid |-> ret.valid,
                     violations |-> ret.violations]
        counted == IF ret.valid
                   THEN [res EXCEPT !.valid_files = @ + 1]
                   ELSE [res EXCEPT !.files_with_violations = @ + 1]
    IN  [counted EXCEPT !.analyses = Append(@, analysis)]

\* Lines 223-228: the except clause of the loop body.
record_error(res, filename, message) ==
    [res EXCEPT !.analyses =
        Append(@, [filename |-> filename, error |-> message])]

\* Lines 189-195 of one iteration, for a file that parses into sc and whose
\* key is found: verify_piece is called and returns.
try_through_verify(sc, flt) ==
    IF program = "music_checker.py"
    THEN verify_piece(solver, sc, flt)
    ELSE [ret |-> smt_verify_piece(sc, flt), solver |-> solver]

\* Lines 189-211 of one iteration in which nothing raises: verify_piece
\* returns, the analysis is built, counted and appended.
try_through_append(sc, flt) ==
    LET r == try_through_verify(sc, flt)
    IN  [verdict |-> r.ret,
         solver |-> r.solver,
         results |-> record_analysis(results, next_file + 1, r.ret)]

\* One iteration of the loop whose try block runs to its end: the file
\* parses, its key is found, verify_piece returns, every print succeeds.
AnalyzeFile ==
    /\ pc = "loop"
    /\ next_file < xml_files
    /\ \E sc \in ScorePool : \E flt \in Faults :
        LET t == try_through_append(sc, flt)
        IN  /\ score' = sc
            /\ fault' = flt
            /\ verdict' = t.verdict
            /\ solver' = t.solver
            /\ results' = t.results
    /\ calls' = calls + 1
    /\ next_file' = next_file + 1
    /\ UNCHANGED <<evalVars, program, pc, xml_files>>

\* One iteration in which the print of line 188, converter.parse (line 189),
\* score.analyze (line 191) or getTimeSignatures (line 192) raises: control goes to the except clause
\* before verify_piece is called, and the except clause records the error.
AnalyzeFileFails ==
    /\ pc = "loop"
    /\ next_file < xml_files
    /\ \E message \in Messages \cup PrintMessages :
        results' = record_error(results, next_file + 1, message)
    /\ next_file' = next_file + 1
    /\ UNCHANGED <<evalVars, solver, program, pc, xml_files, score, fault,
                   verdict, calls>>

\* One iteration in which building the analysis (lines 197-204: str(key),
\* score.recurse()) raises: verify_piece has returned, nothing is counted or
\* appended, and the except clause records the error alone.
AnalyzeFileFailsAfterVerify ==
    /\ pc = "loop"
    /\ next_file < xml_files
    /\ \E sc \in ScorePool : \E flt \in Faults : \E message \in Messages :
        LET r == try_through_verify(sc, flt)
        IN  /\ score' = sc
            /\ fault' = flt
            /\ verdict' = r.ret
            /\ solver' = r.solver
            /\ results' = record_error(results, next_file + 1, message)
    /\ calls' = calls + 1
    /\ next_file' = next_file + 1
    /\ UNCHANGED <<evalVars, program, pc, xml_files>>

\* One iteration in which a print of lines 213-221 raises: the analysis has
\* been counted and appended, and the except clause appends an error record
\* for the same file.
AnalyzeFilePrintFails ==
    /\ pc = "loop"
    /\ next_file < xml_files
    /\ \E sc \in ScorePool : \E flt \in Faults : \E message \in PrintMessages :
        LET t == try_through_append(sc, flt)
        IN  /\ score' = sc
            /\ fault' = flt
            /\ verdict' = t.verdict
            /\ solver' = t.solver
            /\ results' = record_error(t.results, next_file + 1, message)
    /\ calls' = calls + 1
    /\ next_file' = next_file + 1
    /\ UNCHANGED <<evalVars, program, pc, xml_files>>

\* One iteration in which the print of the except clause (line 224) raises
\* in its turn: the exception leaves analyze_mozart_works, no error record
\* is appended and no report is written. The try block had failed before
\* verify_piece was called.
AnalyzeFileAborts ==
    /\ pc = "loop"
    /\ next_file < xml_files
    /\ pc' = "aborted"
    /\ UNCHANGED <<evalVars, solver, program, xml_files, next_file, results,
                   score, fault, verdict, calls>>

\* The same, the try block having failed at lines 197-204, after verify_piece
\* returned: the call has been served and the file has no record.
AnalyzeFileAbortsAfterVerify ==
    /\ pc = "loop"
    /\ next_file < xml_files
    /\ \E sc \in ScorePool : \E flt \in Faults :
        LET r == try_through_verify(sc, flt)
        IN  /\ score' = sc
            /\ fault' = flt
            /\ verdict' = r.ret
            /\ solver' = r.solver
    /\ calls' = calls + 1
    /\ pc' = "aborted"
    /\ UNCHANGED <<evalVars, program, xml_files, next_file, results>>

\* The same, the try block having failed at a print of lines 213-221: the
\* analysis record stays, alone.
AnalyzeFileAbortsLate ==
    /\ pc = "loop"
    /\ next_file < xml_files
    /\ \E sc \in ScorePool : \E flt \in Faults :
        LET t == try_through_append(sc, flt)
        IN  /\ score' = sc
            /\ fault' = flt
            /\ verdict' = t.verdict
            /\ solver' = t.solver
            /\ results' = t.results
    /\ calls' = calls + 1
    /\ pc' = "aborted"
    /\ UNCHANGED <<evalVars, program, xml_files, next_file>>

\* Lines 230-232: the loop is over and the report is written.
WriteReport ==
    /\ pc = "loop"
    /\ next_file = xml_files
    /\ pc' = "done"
    /\ UNCHANGED <<evalVars, solver, program, xml_files, next_file, results,
                   score, fault, verdict, calls>>

\* Line 230: the loop is over and open(output_file, 'w') raises (a directory
\* that does not exist, a directory for a file); the exception leaves
\* analyze_mozart_works and no report is written.
WriteReportFails ==
    /\ pc = "loop"
    /\ next_file = xml_files
    /\ pc' = "aborted"
    /\ UNCHANGED <<evalVars, solver, program, xml_files, next_file, results,
                   score, fault, verdict, calls>>

Next ==
    \/ DiscoverFiles
    \/ DiscoverFilesAbortsEarly
    \/ DiscoverFilesAborts
    \/ AnalyzeFile
    \/ AnalyzeFileFails
    \/ AnalyzeFileFailsAfterVerify
    \/ AnalyzeFilePrintFails
    \/ AnalyzeFileAborts
    \/ AnalyzeFileAbortsAfterVerify
    \/ AnalyzeFileAbortsLate
    \/ WriteReport
    \/ WriteReportFails

Spec == Init /\ [][Next]_vars

(***************************************************************************)
(* Properties of check_voice_leading of music_checker.py (SpecVoice).      *)
(***************************************************************************)
TheFact == voice_pairs[1]

TheInterval == Abs(TheFact[2] - TheFact[1])

TheDuration == TheFact[3]

\* The acceptance rule as the Constraint Model words it.
StatedAcceptance(interval, duration) ==
    \/ /\ duration >= LongDuration
       /\ (interval <= 12 \/ interval = 19 \/ interval = 24)
    \/ /\ duration < LongDuration
       /\ (interval <= 24 \/ interval = 31 \/ interval \in {29, 31, 36, 41})
    \/ /\ interval > (IF duration >= LongDuration THEN 19 ELSE 24)
       /\ \/ interval \in {12, 19, 24, 28, 31}
          \/ interval \in {29, 31, 36, 41}
          \/ duration < FastDuration

\* C3: the direct check_voice_leading emits no diagnostic for a
\* pair exactly when the stated acceptance rule holds (long regime:
\* interval <= 12 or 19 or 24), and exactly one 'Unusual leap' otherwise.
C3_AsStated ==
    "direct_vl" \in ran =>
        IF StatedAcceptance(TheInterval, TheDuration)
        THEN vl_direct = <<>>
        ELSE vl_direct = <<UnusualLeap(TheInterval, 0)>>

ExceptionIntervals == {12, 19, 24, 28, 29, 31, 36, 41}

\* C5: a pair whose interval is one of 12, 19, 24, 28, 29, 31, 36, 41 gets
\* no diagnostic from the direct check_voice_leading, in the long regime and
\* in the short regime.
C5_ExceptionCoverage ==
    ("direct_vl" \in ran /\ TheInterval \in ExceptionIntervals) => vl_direct = <<>>

\* A quarter-note pair 28 semitones apart has been checked and accepted.
C5_Witness ==
    /\ "direct_vl" \in ran
    /\ TheInterval = 28
    /\ TheDuration = LongDuration
    /\ vl_direct = <<>>

(***************************************************************************)
(* Properties of check_harmony of music_checker.py (SpecHarmony).          *)
(***************************************************************************)
TheChord == chords[1]

HasInterval(chord_pcs, k) ==
    \E a \in chord_pcs : \E b \in chord_pcs : b > a /\ (b - a) % 12 = k

\* C7: the direct check_harmony flags a fact with 'Highly unusual
\* dissonance' iff it has at least 3 distinct pitch classes and its pairwise
\* intervals (b - a) mod 12, b > a, contain 1, 6 and 10 together; a fact of
\* fewer than 3 pitch classes is never flagged, {0,1,6,10} is flagged, and
\* the tonic plays no part.
C7_HarshDissonance ==
    "direct_h" \in ran =>
        /\ h_direct \in { <<>>, <<Dissonance(0)>> }
        /\ h_direct = <<Dissonance(0)>> <=>
              /\ Cardinality(TheChord) >= 3
              /\ HasInterval(TheChord, 1)
              /\ HasInterval(TheChord, 6)
              /\ HasInterval(TheChord, 10)
        /\ Cardinality(TheChord) < 3 => h_direct = <<>>
        /\ TheChord = {0, 1, 6, 10} => h_direct = <<Dissonance(0)>>

\* {0,1,6,10} has been checked under tonic 7 and flagged.
C7_Witness ==
    /\ "direct_h" \in ran
    /\ TheChord = {0, 1, 6, 10}
    /\ tonic_pc = 7
    /\ h_direct = <<Dissonance(0)>>

(***************************************************************************)
(* Properties of the two evaluation strategies (SpecEval).                 *)
(***************************************************************************)
Range(seq) == { seq[k] : k \in 1..Len(seq) }

IntervalOf(fact) == Abs(fact[2] - fact[1])

\* The value of the acceptance formula music_checker_smt.py builds for a
\* fact, under the fact's own pitches.
smt_formula_value(fact) ==
    acceptable_intervals(IntervalOf(fact), fact[1], fact[2], fact[3])

\* C2: on every list of voice pairs and every list of harmonic facts the
\* direct evaluator and the solver-backed evaluator return the same list of
\* diagnostics.
C2_StrategiesAgree ==
    /\ {"direct_vl", "smt_vl"} \subseteq ran => vl_direct = vl_smt
    /\ {"direct_h", "smt_h"} \subseteq ran => h_direct = h_smt

\* C4: the solver-backed check_voice_leading gives fact i the diagnostic
\* 'Unusual leap (...) at position i' iff the fact's acceptance formula is
\* false under its own pitches, whatever else is in the list.
C4_PerFactIsolation ==
    "smt_vl" \in ran =>
        \A i \in 1..Len(voice_pairs) :
            UnusualLeap(IntervalOf(voice_pairs[i]), i - 1) \in Range(vl_smt)
                <=> ~smt_formula_value(voice_pairs[i])

\* C6: a fact with firstDuration < 0.25 is acceptable whatever its interval,
\* in both encodings: the direct check_voice_leading emits no diagnostic for
\* it and the acceptance formula of music_checker_smt.py is true for it.
C6_VirtuosicExemption ==
    {"direct_vl", "smt_vl"} \subseteq ran =>
        \A i \in 1..Len(voice_pairs) :
            voice_pairs[i][3] < FastDuration =>
                /\ UnusualLeap(IntervalOf(voice_pairs[i]), i - 1)
                       \notin Range(vl_direct)
                /\ smt_formula_value(voice_pairs[i])

(***************************************************************************)
(* Properties of verify_piece and analyze_mozart_works (Spec).             *)
(***************************************************************************)
\* C1 as stated: every Verdict verify_piece returns, on the normal path and
\* on the error path alike, has valid true iff it has at most 3 violations.
C1_AsStated ==
    calls > 0 => (verdict.valid <=> Len(verdict.violations) <= 3)

\* C1 amended: a Verdict returned on the normal path has valid true iff it
\* has at most 3 violations; a Verdict returned on the error path has valid
\* false and a single entry.
C1_ThresholdVerdict ==
    calls > 0 =>
        IF fault.stage = "none"
        THEN verdict.valid <=> Len(verdict.violations) <= 3
        ELSE ~verdict.valid /\ Len(verdict.violations) = 1

\* verify_piece has returned three diagnostics and valid = true.
C1_Witness ==
    /\ calls > 0
    /\ fault.stage = "none"
    /\ Len(verdict.violations) = 3
    /\ verdict.valid

\* C8: when extraction or evaluation raises inside verify_piece, the call
\* returns (false, ["Analysis error: " + message]), one entry, whatever had
\* been collected; nothing is propagated to the caller.
C8_ErrorVerdict ==
    (calls > 0 /\ fault.stage # "none") =>
        verdict = [valid |-> FALSE,
                   violations |-> <<AnalysisError(fault.message)>>]

\* check_harmony raised after check_voice_leading had found leaps in the
\* score, and the verdict holds the error alone.
C8_Witness ==
    /\ calls > 0
    /\ program = "music_checker.py"
    /\ fault.stage = "harmony"
    /\ Len(check_voice_leading(EmptySolver, extract_voice_pairs(score)).violations) > 0
    /\ verdict.violations = <<AnalysisError("no key")>>

ErrorRecords ==
    { k \in 1..Len(results.analyses) : "error" \in DOMAIN results.analyses[k] }

\* C9: a failure on one file never aborts the batch of analyze_mozart_works;
\* the loop handles the files in order, appends exactly one record per file
\* handled, analysis or error, and when it is done every file has its record
\* and valid_files + files_with_violations + the number of error records =
\* total_files.
C9_BatchComplete ==
    /\ pc # "aborted"
    /\ Len(results.analyses) = next_file
    /\ \A k \in 1..Len(results.analyses) : results.analyses[k].filename = k
    /\ results.valid_files + results.files_with_violations
           + Cardinality(ErrorRecords) = next_file
    /\ pc = "done" => (next_file = results.total_files /\ next_file = xml_files)

\* C10: whatever calls came before on the same MozartChecker of
\* music_checker.py, verify_piece returns for a score the Verdict a fresh
\* instance returns for it.
C10_HistoryFree ==
    (program = "music_checker.py" /\ calls > 0) =>
        verdict = verify_piece(EmptySolver, score, fault).ret

\* The checker has served two calls, its solver holds contradictory
\* assertions, and the last call returned diagnostics.
C10_Witness ==
    /\ program = "music_checker.py"
    /\ calls >= 2
    /\ ~solver_consistent(solver)
    /\ fault.stage = "none"
    /\ Len(verdict.violations) > 0

(***************************************************************************)
(* Properties of extract_voice_pairs (SpecExtract).                        *)
(***************************************************************************)
PairsOf(n) == IF n > 1 THEN n - 1 ELSE 0

RECURSIVE PairsBefore(_)
\* The number of facts the parts before part p account for.
PairsBefore(p) ==
    IF p <= 1 THEN 0
    ELSE PairsBefore(p - 1) + PairsOf(Len(notes_built[p - 1]))

\* C11: for parts whose effective-note lists have n_1..n_k entries,
\* extract_voice_pairs returns sum of max(0, n_p - 1) facts, parts in score
\* order; the j-th fact of a part is (pitch of entry j, pitch of entry j+1,
\* duration of entry j), so no fact joins two parts, and a part of zero or
\* one entry gives no fact.
C11_PairsWithinParts ==
    "extract" \in ran =>
        /\ Len(voice_pairs) = PairsBefore(Len(notes_built) + 1)
        /\ \A p \in 1..Len(notes_built) :
               \A j \in 1..PairsOf(Len(notes_built[p])) :
                   voice_pairs[PairsBefore(p) + j] =
                       <<notes_built[p][j][1], notes_built[p][j + 1][1],
                         notes_built[p][j][2]>>

\* A score of two parts, the first of three entries and the second of two,
\* has been extracted into three facts.
C11_Witness ==
    /\ "extract" \in ran
    /\ Len(notes_built) = 2
    /\ Len(notes_built[1]) = 3
    /\ Len(notes_built[2]) = 2
    /\ Len(voice_pairs) = 3

PitchSet(ev) == { ev.pitches[k] : k \in 1..Len(ev.pitches) }

\* What the stated rule has one event add to the effective-note list.
StatedEntries(ev) ==
    LET d == ev.quarterLength
        lowest == CHOOSE x \in PitchSet(ev) : \A y \in PitchSet(ev) : x <= y
        highest == CHOOSE x \in PitchSet(ev) : \A y \in PitchSet(ev) : x >= y
    IN  IF ev.kind = "Note" THEN << <<ev.pitches[1], d>> >>
        ELSE IF Len(ev.pitches) >= 2 THEN << <<lowest, d>>, <<highest, d>> >>
        ELSE IF Len(ev.pitches) = 1 THEN << <<ev.pitches[1], d>> >>
        ELSE <<>>

RECURSIVE StatedNotes(_)
StatedNotes(part) ==
    IF part = <<>> THEN <<>>
    ELSE StatedEntries(Head(part)) \o StatedNotes(Tail(part))

\* C12: in event order, a note adds one entry (pitch, duration) to the
\* part's effective-note list, a chord of 2 or more pitches adds (lowest
\* pitch, duration) then (highest pitch, duration), and a chord of exactly
\* 1 pitch adds one entry (its pitch, its duration) like a note.
C12_EventEntries ==
    "extract" \in ran =>
        \A p \in 1..Len(score.parts) :
            notes_built[p] = StatedNotes(score.parts[p])

====
